---- MODULE Spec2Model ----
(***************************************************************************)
(* Model of lib/algorithms/od_dual_formulation.py (class ODDualFormulation) *)
(*                                                                         *)
(* Real numbers.  The program computes in binary64.  The model holds every *)
(* real quantity (capacity, demand, flow, multiplier, step size) as an     *)
(* integer count of micro-units (1/Unit), and every product, quotient and  *)
(* reciprocal is rounded toward minus infinity to a whole micro-unit.      *)
(* Raw inputs (edge capacities, demands) are whole numbers.                *)
(***************************************************************************)
EXTENDS Integers, Sequences, FiniteSets, TLC

\* ------------------------------------------------------------------ numbers
Unit == 1000 * 1000

Min2(a, b) == IF a <= b THEN a ELSE b
Max2(a, b) == IF a >= b THEN a ELSE b

\* floor(a * b / Unit) for 0 <= a < Unit and any b, without leaving 32 bits.
Mul(a, b) ==
    LET bq == b \div Unit
        br == b % Unit
        aq == a \div 1000
        ar == a % 1000
        t1 == aq * br
    IN  a * bq + (t1 \div 1000) + (((t1 % 1000) * 1000 + ar * br) \div Unit)

Saturated == 1024 * 1024 * 1024

RECURSIVE DivSteps(_, _, _, _)
\* n doubling steps of the binary long division (q, r) of a numerator by den;
\* the quotient saturates at Saturated.
DivSteps(q, r, den, n) ==
    IF n = 0 THEN q
    ELSE LET bit == IF r >= den - r THEN 1 ELSE 0
             r2 == IF bit = 1 THEN r - (den - r) ELSE r + r
             q2 == IF q >= Saturated \div 2 THEN Saturated ELSE 2 * q + bit
         IN  DivSteps(q2, r2, den, n - 1)

\* 1 / den in micro-units, den > 0 in micro-units: floor(Unit * Unit / den),
\* saturating at Saturated.  Unit * Unit = 5^12 * 2^12.
Recip(den) == DivSteps(244140625 \div den, 244140625 % den, den, 12)

RECURSIVE SumSeq(_, _)
\* sum of f[p] over the elements p of the list ids
SumSeq(ids, f) == IF ids = <<>> THEN 0 ELSE f[Head(ids)] + SumSeq(Tail(ids), f)

\* dict helpers: a dict is a function on its key set
EmptyDict == [k \in {} |-> 0]
Get(d, k, default) == IF k \in DOMAIN d THEN d[k] ELSE default
Put(d, k, v) == [x \in (DOMAIN d) \cup {k} |-> IF x = k THEN v ELSE d[x]]

\* ------------------------------------------------------- program constants
MAX_ROUNDS == 20000
ETA == 1
NORMALIZATION == 1000
DEFAULT_MIN_CAPACITY == 10000000
MU_INIT == 100
NU_INIT == 10
BETA_INIT == 10

\* ------------------------------------------------------------ model bounds
\* a problem has 1..MaxCommodities commodities
MaxCommodities == 2

\* ----------------------------------------------------------------- inputs
\* problem.G: the line topology 0 - 1 - 2
Edges == {<<0, 1>>, <<1, 2>>}
\* raw edge capacities a problem may carry
CapacityChoices == {0, 10, 1000000}
\* raw demand volumes a commodity may carry
DemandChoices == {5}
\* the (source, destination) pair of the commodity with key k is ODPairs[k + 1]
\* the last pair has no path in the directed topology
ODPairs == <<<<0, 2>>, <<0, 1>>, <<1, 2>>, <<2, 0>>>>

\* problem.commodity_list: [(k, (s_k, t_k, d_k))], keys 0, 1, ... in order
CommodityLists ==
    UNION {[1..n -> DemandChoices] : n \in 1..Min2(MaxCommodities, Len(ODPairs))}
CommodityList(demands) ==
    [i \in 1..Len(demands) |->
        <<i - 1, <<ODPairs[i][1], ODPairs[i][2], demands[i]>>>>]

Problems ==
    {[capacity |-> c, commodity_list |-> CommodityList(d)] :
        c \in [Edges -> CapacityChoices], d \in CommodityLists}

VARIABLES
    pc,                      \* where the call stands
    problem,                 \* self._problem
    round,                   \* the round index of solve
    EPSILON,                 \* the step size of the current round
    all_paths_dicty,         \* path id -> path
    edge_to_path_ids,        \* edge -> list of path ids
    path_ids_to_edge,        \* path id -> list of edges
    sites_to_path_ids,       \* (s, t) -> list of path ids
    path_id_to_min_capacity, \* path id -> bottleneck capacity
    edge_to_capacity,        \* edge -> normalized capacity
    sites_to_demand,         \* (s, t) -> normalized demand
    xr_old, xr_new,          \* path id -> allocation
    xr_bar_old, xr_bar_new,  \* path id -> running average <<hi, lo>>
    mu_old, mu_new,          \* edge -> multiplier
    nu_old, nu_new,          \* (s, t) -> multiplier
    beta_old, beta_new,      \* path id -> multiplier
    xr_total,                \* history: path id -> <<whole units, micro-units>>,
                             \* the sum of the allocations of the rounds so far
    formulation,             \* the ODDualFormulation instance, or NoInstance
    call,                    \* the constructor or factory call made, or NoCall
    has_paths_dict,          \* hasattr(self, "_paths_dict")
    commodity_list,          \* self.commodity_list
    commodities,             \* self.commodities: [(k, d_k, path_ids)]
    path_to_commod,          \* self._path_to_commod: path id -> k
    all_paths,               \* self._all_paths
    edge_to_paths,           \* edge -> list of path ids (pre_solve's result)
    model_vars,              \* self.model.getVars(): [varName, x]
    optimized,               \* the external solver has solved the model
    sol_dict,                \* self._sol_dict, or NoSolDict
    model_constrs,           \* the constraints added to the model
    model_bounds,            \* the [lb, ub] of each variable of the model
    cache_file,              \* the paths pickle file on disk
    paths_dir_writable,      \* the paths file can be opened for writing
    paths_result,            \* what read_paths_from_disk_or_compute returned
    driver,                  \* the benchmark script that runs
    configs,                 \* the configurations swept for every problem
    num_problems,            \* len(problems)
    prob_i, cfg_i,           \* the problem and configuration being run
    results,                 \* the rows appended to the results CSV
    attempted,               \* history: the configurations whose run began
    solved,                  \* history: pop.solve returned for the current one
    feasible                 \* history: so did check_feasibility

indexVars == <<all_paths_dicty, edge_to_path_ids, path_ids_to_edge,
               sites_to_path_ids, path_id_to_min_capacity, edge_to_capacity,
               sites_to_demand>>
iterVars == <<xr_old, xr_new, xr_bar_old, xr_bar_new, mu_old, mu_new,
              nu_old, nu_new, beta_old, beta_new>>
ctorVars == <<formulation, call, has_paths_dict>>
lpVars == <<commodity_list, commodities, path_to_commod, all_paths, edge_to_paths,
            model_vars, optimized, sol_dict, model_constrs, model_bounds>>
cacheVars == <<cache_file, paths_dir_writable, paths_result>>
benchVars == <<driver, configs, num_problems, prob_i, cfg_i, results, attempted,
               solved, feasible>>
extVars == <<cacheVars, benchVars>>
vars == <<pc, problem, round, EPSILON, indexVars, iterVars, xr_total, ctorVars, lpVars,
          extVars>>

\* ------------------------------------------------------------ path index
\* get_paths(problem): on the line topology every pair has its one simple
\* path, and the pair (2, 0) has none
get_paths(p) ==
    [site \in {<<0, 1>>, <<1, 2>>, <<0, 2>>, <<2, 0>>} |->
        IF site = <<0, 2>> THEN <<<<0, 1, 2>>>>
        ELSE IF site = <<2, 0>> THEN <<>> ELSE <<<<site[1], site[2]>>>>]

\* path_to_edge_list(path): the consecutive node pairs of the path
path_to_edge_list(path) == [i \in 1..(Len(path) - 1) |-> <<path[i], path[i + 1]>>]

RECURSIVE PathRows(_, _, _)
\* the paths of the commodities cl[ci], cl[ci + 1], ..., in the order the loops
\* of solve and pre_solve number them: row i + 1 is the path with id i
PathRows(cl, paths, ci) ==
    IF ci > Len(cl) THEN <<>>
    ELSE LET c == cl[ci][2]
             site == <<c[1], c[2]>>
         IN  [i \in 1..Len(paths[site]) |->
                 [path |-> paths[site][i], site |-> site, d |-> c[3],
                  k |-> cl[ci][1], ci |-> ci]]
             \o PathRows(cl, paths, ci + 1)

\* c_e / NORMALIZATION and d_k / NORMALIZATION, in micro-units
Normalized(raw) == raw * (Unit \div NORMALIZATION)

RECURSIVE MinCapacity(_, _, _)
\* min(path_id_to_min_capacity[p], edge_to_capacity[edge]) over the edges
MinCapacity(acc, edges, cap) ==
    IF edges = <<>> THEN acc
    ELSE MinCapacity(Min2(acc, Get(cap, Head(edges), 0)), Tail(edges), cap)

\* the bottleneck of a path, starting from the default DEFAULT_MIN_CAPACITY
PathMinCapacity(edges, cap) ==
    IF edges = <<>> THEN DEFAULT_MIN_CAPACITY * Unit
    ELSE LET c == Get(cap, Head(edges), 0)
             first == IF c \div Unit >= DEFAULT_MIN_CAPACITY
                      THEN DEFAULT_MIN_CAPACITY * Unit ELSE c
         IN  MinCapacity(first, Tail(edges), cap)

\* the path ids p, in increasing order, from i - 1 on, with flags[p + 1] true
RECURSIVE IdsWhere(_, _)
IdsWhere(flags, i) ==
    IF i > Len(flags) THEN <<>>
    ELSE (IF flags[i] THEN <<i - 1>> ELSE <<>>) \o IdsWhere(flags, i + 1)

\* mutant of HasEdge: only the first edge of the path is looked at
HasEdge_first(row, e) == Len(row.path) > 1 /\ path_to_edge_list(row.path)[1] = e

HasEdge(row, e) == \E j \in 1..(Len(row.path) - 1) : path_to_edge_list(row.path)[j] = e

\* ------------------------------------------------------------ construction
\* the members of Objective, and a value that is none of them
Objectives == {"TOTAL_FLOW", "MAX_CONCURRENT_FLOW", "MIN_MAX_LINK_UTIL",
               "COMPUTE_DEMAND_SCALE_FACTOR"}
ObjectiveArgs == Objectives \cup {"NOT_AN_OBJECTIVE"}
\* the dist_metric arguments tried: the two valid ones and two others
DistMetricArgs == {"inv-cap", "min-hop", "inv_cap", "hops"}
\* num_paths arguments: 1..MaxNumPaths
MaxNumPaths == 2

NoInstance == [exists |-> FALSE]
NoCall == [entry |-> "none"]

\* mutant of MetricInvalid: "or" in place of "and"
MetricInvalid_or(dist_metric) == dist_metric # "inv-cap" \/ dist_metric # "min-hop"

\* line 103
MetricInvalid(dist_metric) == dist_metric # "inv-cap" /\ dist_metric # "min-hop"

\* __init__, lines 91-111: what cls(...) gives its caller
ODDualFormulation_init(objective, num_paths, edge_disjoint, dist_metric) ==
    IF MetricInvalid(dist_metric)
    THEN [raised |-> TRUE, value |-> NoInstance]
    ELSE [raised |-> FALSE,
          value |-> [exists |-> TRUE, objective |-> objective, num_paths |-> num_paths,
                     edge_disjoint |-> edge_disjoint, dist_metric |-> dist_metric,
                     DEBUG |-> FALSE, VERBOSE |-> FALSE, warm_start_mode |-> FALSE]]

\* lines 22-34
new_total_flow(num_paths, edge_disjoint, dist_metric) ==
    ODDualFormulation_init("TOTAL_FLOW", num_paths, edge_disjoint, dist_metric)

\* lines 36-48
new_max_concurrent_flow(num_paths, edge_disjoint, dist_metric) ==
    ODDualFormulation_init("MAX_CONCURRENT_FLOW", num_paths, edge_disjoint, dist_metric)

\* lines 50-62
new_min_max_link_util(num_paths, edge_disjoint, dist_metric) ==
    ODDualFormulation_init("MIN_MAX_LINK_UTIL", num_paths, edge_disjoint, dist_metric)

\* lines 64-76
compute_demand_scale_factor(num_paths, edge_disjoint, dist_metric) ==
    ODDualFormulation_init("COMPUTE_DEMAND_SCALE_FACTOR", num_paths, edge_disjoint,
                           dist_metric)

\* lines 78-89: the last branch prints and falls off the end (returns None)
get_pf_for_obj(objective, num_paths, edge_disjoint, dist_metric) ==
    IF objective = "TOTAL_FLOW"
    THEN new_total_flow(num_paths, edge_disjoint, dist_metric)
    ELSE IF objective = "MAX_CONCURRENT_FLOW"
    THEN new_max_concurrent_flow(num_paths, edge_disjoint, dist_metric)
    ELSE IF objective = "MIN_MAX_LINK_UTIL"
    THEN new_min_max_link_util(num_paths, edge_disjoint, dist_metric)
    ELSE IF objective = "COMPUTE_DEMAND_SCALE_FACTOR"
    THEN compute_demand_scale_factor(num_paths, edge_disjoint, dist_metric)
    ELSE [raised |-> FALSE, value |-> NoInstance]

\* the state a call leaves: the caller holds an instance, holds None, or the
\* call raised
AfterCall(entry, objective, num_paths, edge_disjoint, dist_metric, outcome) ==
    /\ pc = "idle"
    /\ call' = [entry |-> entry, objective |-> objective, num_paths |-> num_paths,
                edge_disjoint |-> edge_disjoint, dist_metric |-> dist_metric]
    /\ formulation' = outcome.value
    /\ pc' = IF outcome.raised THEN "ctor_raised"
             ELSE IF outcome.value.exists THEN "constructed" ELSE "returned_none"
    /\ UNCHANGED <<problem, extVars, round, EPSILON, indexVars, iterVars, xr_total, has_paths_dict,
                   lpVars>>

CallInit ==
    \E o \in ObjectiveArgs, n \in 1..MaxNumPaths, ed \in BOOLEAN, dm \in DistMetricArgs :
        AfterCall("__init__", o, n, ed, dm, ODDualFormulation_init(o, n, ed, dm))

CallNewTotalFlow ==
    \E n \in 1..MaxNumPaths, ed \in BOOLEAN, dm \in DistMetricArgs :
        AfterCall("new_total_flow", "TOTAL_FLOW", n, ed, dm, new_total_flow(n, ed, dm))

CallNewMaxConcurrentFlow ==
    \E n \in 1..MaxNumPaths, ed \in BOOLEAN, dm \in DistMetricArgs :
        AfterCall("new_max_concurrent_flow", "MAX_CONCURRENT_FLOW", n, ed, dm,
                  new_max_concurrent_flow(n, ed, dm))

CallNewMinMaxLinkUtil ==
    \E n \in 1..MaxNumPaths, ed \in BOOLEAN, dm \in DistMetricArgs :
        AfterCall("new_min_max_link_util", "MIN_MAX_LINK_UTIL", n, ed, dm,
                  new_min_max_link_util(n, ed, dm))

CallComputeDemandScaleFactor ==
    \E n \in 1..MaxNumPaths, ed \in BOOLEAN, dm \in DistMetricArgs :
        AfterCall("compute_demand_scale_factor", "COMPUTE_DEMAND_SCALE_FACTOR", n, ed, dm,
                  compute_demand_scale_factor(n, ed, dm))

CallGetPfForObj ==
    \E o \in ObjectiveArgs, n \in 1..MaxNumPaths, ed \in BOOLEAN, dm \in DistMetricArgs :
        AfterCall("get_pf_for_obj", o, n, ed, dm, get_pf_for_obj(o, n, ed, dm))

\* get_paths, lines 244-249: the first call on an instance loads the path set
GetPaths ==
    /\ pc = "constructed"
    /\ formulation.exists
    /\ ~has_paths_dict
    /\ has_paths_dict' = TRUE
    /\ UNCHANGED <<pc, problem, extVars, round, EPSILON, indexVars, iterVars, xr_total,
                   formulation, call, lpVars>>

\* no solve has started
DualIdle ==
    /\ round = 0
    /\ EPSILON = 0
    /\ all_paths_dicty = EmptyDict
    /\ edge_to_path_ids = EmptyDict
    /\ path_ids_to_edge = EmptyDict
    /\ sites_to_path_ids = EmptyDict
    /\ path_id_to_min_capacity = EmptyDict
    /\ edge_to_capacity = EmptyDict
    /\ sites_to_demand = EmptyDict
    /\ xr_old = EmptyDict /\ xr_new = EmptyDict
    /\ xr_bar_old = EmptyDict /\ xr_bar_new = EmptyDict
    /\ mu_old = EmptyDict /\ mu_new = EmptyDict
    /\ nu_old = EmptyDict /\ nu_new = EmptyDict
    /\ beta_old = EmptyDict /\ beta_new = EmptyDict
    /\ xr_total = EmptyDict

NoSolDict == [exists |-> FALSE]

\* no model has been built
LpIdle ==
    /\ commodity_list = <<>>
    /\ commodities = <<>>
    /\ path_to_commod = EmptyDict
    /\ all_paths = <<>>
    /\ edge_to_paths = EmptyDict
    /\ model_vars = <<>>
    /\ optimized = FALSE
    /\ sol_dict = NoSolDict
    /\ model_constrs = <<>>
    /\ model_bounds = <<>>

\* no cache file is involved
CacheIdle ==
    /\ cache_file = [state |-> "missing"]
    /\ paths_dir_writable = TRUE
    /\ paths_result = [exists |-> FALSE]

\* no benchmark runs
BenchIdle ==
    /\ driver = "none"
    /\ configs = <<>>
    /\ num_problems = 0
    /\ prob_i = 0 /\ cfg_i = 0
    /\ results = <<>>
    /\ attempted = {} /\ solved = FALSE /\ feasible = FALSE

ExtIdle == CacheIdle /\ BenchIdle

\* nothing has been constructed
InitCtor ==
    /\ pc = "idle"
    /\ problem = CHOOSE q \in Problems : TRUE
    /\ formulation = NoInstance
    /\ call = NoCall
    /\ has_paths_dict = FALSE
    /\ DualIdle
    /\ LpIdle
    /\ ExtIdle

NextCtor ==
    \/ CallInit
    \/ CallNewTotalFlow
    \/ CallNewMaxConcurrentFlow
    \/ CallNewMinMaxLinkUtil
    \/ CallComputeDemandScaleFactor
    \/ CallGetPfForObj
    \/ GetPaths

SpecCtor == InitCtor /\ [][NextCtor]_vars

\* ------------------------------------------------------------- dual solve
\* solve is called on the instance new_total_flow(1) built for a problem
Init ==
    /\ pc = "start"
    /\ problem \in Problems
    /\ formulation = new_total_flow(1, TRUE, "inv-cap").value
    /\ call = [entry |-> "new_total_flow", objective |-> "TOTAL_FLOW", num_paths |-> 1,
               edge_disjoint |-> TRUE, dist_metric |-> "inv-cap"]
    /\ has_paths_dict = FALSE
    /\ DualIdle
    /\ LpIdle
    /\ ExtIdle

\* ------------------------------------------------- path formulation model
\* problem.sparse_commodity_list: the commodities with nonzero demand, each
\* with its key
sparse_commodity_list(p) ==
    LET NonZero(c) == c[2][3] # 0 IN SelectSeq(p.commodity_list, NonZero)

\* str(i) and "f[i]" as lists of characters
DigitChars == <<"0", "1", "2", "3", "4", "5", "6", "7", "8", "9">>
RECURSIVE Digits(_)
Digits(i) == IF i < 10 THEN <<DigitChars[i + 1]>>
             ELSE Digits(i \div 10) \o <<DigitChars[(i % 10) + 1]>>

\* the names gurobi gives the variables of addVars(n, name="f"), lines 119-134
PathVarName(i) == <<"f", "[">> \o Digits(i) \o <<"]">>

\* the variables of the model in the order they were added, lines 119-162
ModelVarNames(objective, n) ==
    [i \in 1..n |-> PathVarName(i - 1)]
    \o (IF objective \in {"MIN_MAX_LINK_UTIL", "COMPUTE_DEMAND_SCALE_FACTOR"}
        THEN <<<<"z">>>>
        ELSE IF objective = "MAX_CONCURRENT_FLOW" THEN <<<<"a">>>> ELSE <<>>)

\* pre_solve, lines 391-429, called with problem = None
PreSolve ==
    LET cl == IF formulation.warm_start_mode THEN sparse_commodity_list(problem)
              ELSE problem.commodity_list
        rows == PathRows(cl, get_paths(problem), 1)
        usedEdges == {e \in Edges : \E i \in 1..Len(rows) : HasEdge(rows[i], e)}
    IN  /\ commodity_list' = cl
        /\ has_paths_dict' = TRUE
        /\ all_paths' = [i \in 1..Len(rows) |-> rows[i].path]
        /\ path_to_commod' = [q \in 0..(Len(rows) - 1) |-> rows[q + 1].k]
        /\ commodities' =
               [i \in 1..Len(cl) |->
                   <<cl[i][1], cl[i][2][3],
                     IdsWhere([j \in 1..Len(rows) |-> rows[j].ci = i], 1)>>]
        /\ edge_to_paths' =
               [e \in usedEdges |-> IdsWhere([j \in 1..Len(rows) |-> HasEdge(rows[j], e)], 1)]

\* G.edges.data("capacity"): the edges of the topology in iteration order
EdgeSeq == <<<<0, 1>>, <<1, 2>>>>

\* no upper bound
Unbounded == -1

\* A constraint is the record [ids, div, sense, aux, rhs]. It reads
\*     (sum of the flows of the paths in ids) / div   sense   right-hand side
\* where the right-hand side is the auxiliary variable (z or alpha) when aux
\* is true and the number rhs otherwise.

\* mutant of EdgeUtilConstr: a zero-capacity edge is left unconstrained
EdgeUtilConstr_open(ids, c_e) ==
    IF c_e = 0
    THEN [ids |-> ids, div |-> 1, sense |-> ">=", aux |-> FALSE, rhs |-> 0]
    ELSE [ids |-> ids, div |-> c_e, sense |-> "<=", aux |-> TRUE, rhs |-> 0]

\* lines 143-146: quicksum <= 0.0 on a zero-capacity edge, else quicksum / c_e <= z
EdgeUtilConstr(ids, c_e) ==
    IF c_e = 0
    THEN [ids |-> ids, div |-> 1, sense |-> "<=", aux |-> FALSE, rhs |-> 0]
    ELSE [ids |-> ids, div |-> c_e, sense |-> "<=", aux |-> TRUE, rhs |-> 0]

\* lines 153-155: quicksum == d_k
DemandEqConstr(ids, d_k) ==
    [ids |-> ids, div |-> 1, sense |-> "==", aux |-> FALSE, rhs |-> d_k]

\* lines 164-167: quicksum / d_k >= alpha
ConcurrentConstr(ids, d_k) ==
    [ids |-> ids, div |-> d_k, sense |-> ">=", aux |-> TRUE, rhs |-> 0]

\* mutant of CapacityConstr: the capacity of the edge is doubled
CapacityConstr_double(ids, c_e) ==
    [ids |-> ids, div |-> 1, sense |-> "<=", aux |-> FALSE, rhs |-> 2 * c_e]

\* lines 172-176: quicksum <= c_e
CapacityConstr(ids, c_e) ==
    [ids |-> ids, div |-> 1, sense |-> "<=", aux |-> FALSE, rhs |-> c_e]

\* lines 180-184: quicksum <= d_k
DemandConstr(ids, d_k) ==
    [ids |-> ids, div |-> 1, sense |-> "<=", aux |-> FALSE, rhs |-> d_k]

\* the edges of G that are keys of edge_to_paths, in iteration order
UsedEdgeSeq(e2p) == LET Used(e) == e \in DOMAIN e2p IN SelectSeq(EdgeSeq, Used)

\* the division by d_k of line 165 raises ZeroDivisionError
ConstructPathLpRaises(objective, comms) ==
    /\ objective = "MAX_CONCURRENT_FLOW"
    /\ \E i \in 1..Len(comms) : comms[i][2] = 0

\* _construct_path_lp, lines 122-184: the constraints in the order they are added
PathLpConstrs(objective, capacity, e2p, comms) ==
    LET edges == UsedEdgeSeq(e2p)
    IN  IF objective \in {"MIN_MAX_LINK_UTIL", "COMPUTE_DEMAND_SCALE_FACTOR"}
        THEN [i \in 1..Len(edges) |-> EdgeUtilConstr(e2p[edges[i]], capacity[edges[i]])]
             \o [i \in 1..Len(comms) |-> DemandEqConstr(comms[i][3], comms[i][2])]
        ELSE (IF objective = "MAX_CONCURRENT_FLOW"
              THEN [i \in 1..Len(comms) |-> ConcurrentConstr(comms[i][3], comms[i][2])]
              ELSE <<>>)
             \o [i \in 1..Len(edges) |-> CapacityConstr(e2p[edges[i]], capacity[edges[i]])]
             \o [i \in 1..Len(comms) |-> DemandConstr(comms[i][3], comms[i][2])]

\* lines 119, 129-134, 161: lb = 0.0 for every variable; ub = 1.0 for the z of
\* MIN_MAX_LINK_UTIL and for alpha, none for the others
PathLpBounds(objective, n) ==
    [i \in 1..n |-> [lb |-> 0, ub |-> Unbounded]]
    \o (IF objective \in {"MIN_MAX_LINK_UTIL", "MAX_CONCURRENT_FLOW"}
        THEN <<[lb |-> 0, ub |-> 1]>>
        ELSE IF objective = "COMPUTE_DEMAND_SCALE_FACTOR"
             THEN <<[lb |-> 0, ub |-> Unbounded]>>
             ELSE <<>>)

\* _construct_lp, lines 431-436: pre_solve, then the model of _construct_path_lp;
\* when _construct_path_lp raises no model is kept
ConstructLp ==
    /\ PreSolve
    /\ IF ConstructPathLpRaises(formulation.objective, commodities')
       THEN UNCHANGED <<model_vars, model_constrs, model_bounds>>
       ELSE /\ model_vars' =
                  LET names == ModelVarNames(formulation.objective, Len(all_paths'))
                  IN  [i \in 1..Len(names) |-> [varName |-> names[i], x |-> 0]]
            /\ model_constrs' = PathLpConstrs(formulation.objective, problem.capacity,
                                              edge_to_paths', commodities')
            /\ model_bounds' = PathLpBounds(formulation.objective, Len(all_paths'))
    /\ optimized' = FALSE

\* solve, lines 256-314: the indexes and the values the first round starts from
SolveSetup ==
    /\ pc = "start"
    /\ ConstructLp
    /\ LET rows == PathRows(commodity_list', get_paths(problem), 1)
           ids == 0..(Len(rows) - 1)
           cap == [e \in Edges |-> Normalized(problem.capacity[e])]
           sites == {rows[i].site : i \in 1..Len(rows)}
           usedEdges == {e \in Edges : \E i \in 1..Len(rows) : HasEdge(rows[i], e)}
           OfSite(s) == IdsWhere([i \in 1..Len(rows) |-> rows[i].site = s], 1)
           OfEdge(e) == IdsWhere([i \in 1..Len(rows) |-> HasEdge(rows[i], e)], 1)
           cl == commodity_list'
       IN  /\ edge_to_capacity' = cap
           /\ sites_to_demand' =
                  [s \in {<<cl[i][2][1], cl[i][2][2]>> : i \in 1..Len(cl)} |->
                      LET last == CHOOSE i \in 1..Len(cl) :
                                    /\ <<cl[i][2][1], cl[i][2][2]>> = s
                                    /\ \A j \in (i + 1)..Len(cl) :
                                          <<cl[j][2][1], cl[j][2][2]>> # s
                      IN  Normalized(cl[last][2][3])]
           /\ all_paths_dicty' = [p \in ids |-> rows[p + 1].path]
           /\ xr_old' = [p \in ids |-> rows[p + 1].d * Unit]
           /\ sites_to_path_ids' = [s \in sites |-> OfSite(s)]
           /\ edge_to_path_ids' = [e \in usedEdges |-> OfEdge(e)]
           /\ path_ids_to_edge' = [p \in ids |-> path_to_edge_list(rows[p + 1].path)]
           /\ path_id_to_min_capacity' =
                  [p \in ids |-> PathMinCapacity(path_to_edge_list(rows[p + 1].path), cap)]
    /\ round' = 1
    /\ pc' = "loop"
    /\ xr_total' = [p \in DOMAIN path_to_commod' |-> <<0, 0>>]
    /\ UNCHANGED <<problem, extVars, EPSILON, xr_new, xr_bar_old, xr_bar_new, mu_old, mu_new,
                   nu_old, nu_new, beta_old, beta_new, formulation, call, sol_dict>>

\* mutant of StepSize: the cap 0.009 is dropped
StepSize_uncapped(r) == (Unit \div 2) \div Min2(r, 10)

\* line 316: EPSILON = min(0.5 / min(round, 10), 0.009)
StepSize(r) == Min2((Unit \div 2) \div Min2(r, 10), (9 * Unit) \div 1000)

\* mutant of EdgeMultiplier: the projection max(., 0) is dropped
EdgeMultiplier_unclamped(eps, old, sum_xr, capacity) ==
    old + Mul(eps, sum_xr - (ETA * capacity))

\* line 323
EdgeMultiplier(eps, old, sum_xr, capacity) ==
    Max2(old + Mul(eps, sum_xr - (ETA * capacity)), 0)

\* line 330
SiteMultiplier(eps, old, demand, sum_xr) ==
    Max2(old + Mul(eps, demand - sum_xr), 0)

\* line 333
PathMultiplier(eps, old, xr) == Max2(old - Mul(eps, xr), 0)

\* lines 344-350
Allocation(denominator, max_allocation) ==
    IF denominator <= 0 THEN max_allocation
    ELSE Min2(Recip(denominator), max_allocation)

\* The running averages are kept to twelve decimals: the value <<hi, lo>>
\* stands for hi micro-units plus lo millionths of a micro-unit, 0 <= lo < Unit.
AddLimbs(v, w) == <<v[1] + w[1] + ((v[2] + w[2]) \div Unit), (v[2] + w[2]) % Unit>>
SubLimbs(v, w) ==
    IF v[2] >= w[2] THEN <<v[1] - w[1], v[2] - w[2]>>
    ELSE <<v[1] - w[1] - 1, v[2] + Unit - w[2]>>

\* floor(v / r) for 1 <= r <= MAX_ROUNDS, without leaving 32 bits
DivLimbs(v, r) ==
    LET a == (v[1] % r) * 1000 + (v[2] \div 1000)
        b == (a % r) * 1000 + (v[2] % 1000)
    IN  <<v[1] \div r, (a \div r) * 1000 + (b \div r)>>

\* lines 345-355: the entry of xr_bar_new for path p after the round, or its
\* absence (the empty dict) when the round leaves none
Average(bar_new, bar_old, p, r, denominator, xr) ==
    IF denominator <= 0 THEN bar_new
    ELSE IF p \notin DOMAIN bar_old
         THEN Put(bar_new, p, DivLimbs(<<xr, 0>>, r))
         ELSE Put(bar_new, p, AddLimbs(SubLimbs(bar_old[p], DivLimbs(bar_old[p], r)),
                                       DivLimbs(<<xr, 0>>, r)))

\* mutant of Denominator: the multipliers of the previous round are read
Denominator_stale(p, mu, nu) ==
    SumSeq(path_ids_to_edge[p], [e \in DOMAIN mu |-> Get(mu_old, e, MU_INIT * Unit)])
    - Get(nu_old, <<all_paths_dicty[p][1], all_paths_dicty[p][Len(all_paths_dicty[p])]>>,
          NU_INIT * Unit)

\* lines 336-342: denominator = sum_mu - sum_nu for the path with id p
Denominator(p, mu, nu) ==
    SumSeq(path_ids_to_edge[p], mu)
    - Get(nu, <<all_paths_dicty[p][1], all_paths_dicty[p][Len(all_paths_dicty[p])]>>, 0)

RECURSIVE Averages(_, _, _, _, _, _, _)
\* xr_bar_new after the loop of lines 335-355 has passed the path ids 0..n-1
Averages(bar_new, bar_old, n, r, mu, nu, xr) ==
    IF n = 0 THEN bar_new
    ELSE Average(Averages(bar_new, bar_old, n - 1, r, mu, nu, xr),
                 bar_old, n - 1, r, Denominator(n - 1, mu, nu), xr[n - 1])

\* line 358: math.log(xr_new[x] * NORMALIZATION) raises ValueError on an
\* argument <= 0, for x in range(len(xr_new))
LogRaises(xr) == \E x \in 0..(Cardinality(DOMAIN xr) - 1) : Get(xr, x, 0) <= 0

\* history: the two-limb sum t = <<whole units, micro-units>> plus x micro-units
AddTotal(t, x) == <<t[1] + ((t[2] + x) \div Unit), (t[2] + x) % Unit>>

\* one pass of the while loop, lines 316-372
Round ==
    /\ pc = "loop"
    /\ EPSILON' = StepSize(round)
    /\ mu_new' = [e \in DOMAIN edge_to_path_ids |->
                    EdgeMultiplier(EPSILON', Get(mu_old, e, MU_INIT * Unit),
                                   SumSeq(edge_to_path_ids[e], xr_old),
                                   Get(edge_to_capacity, e, 0))]
    /\ nu_new' = [s \in DOMAIN sites_to_path_ids |->
                    SiteMultiplier(EPSILON', Get(nu_old, s, NU_INIT * Unit),
                                   Get(sites_to_demand, s, 0),
                                   SumSeq(sites_to_path_ids[s], xr_old))]
    /\ beta_new' = [p \in DOMAIN all_paths_dicty |->
                      PathMultiplier(EPSILON', Get(beta_old, p, BETA_INIT * Unit),
                                     xr_old[p])]
    /\ xr_new' = [p \in DOMAIN all_paths_dicty |->
                    Allocation(Denominator(p, mu_new', nu_new'),
                               path_id_to_min_capacity[p])]
    /\ xr_bar_new' = Averages(xr_bar_new, xr_bar_old,
                              Cardinality(DOMAIN all_paths_dicty),
                              round, mu_new', nu_new', xr_new')
    /\ xr_total' = [p \in DOMAIN xr_total |-> AddTotal(xr_total[p], xr_new'[p])]
    /\ IF LogRaises(xr_new')
       THEN /\ pc' = "raised"
            /\ UNCHANGED <<round, xr_old, xr_bar_old, mu_old, nu_old, beta_old>>
       ELSE /\ xr_old' = xr_new' /\ xr_bar_old' = xr_bar_new'
            /\ nu_old' = nu_new' /\ mu_old' = mu_new' /\ beta_old' = beta_new'
            /\ IF round = MAX_ROUNDS
               THEN pc' = "persist" /\ round' = round
               ELSE pc' = "loop" /\ round' = round + 1
    /\ UNCHANGED <<problem, extVars, indexVars, ctorVars, lpVars>>

\* lines 374-386: the multipliers are written to mu.json and nu.json
Persist ==
    /\ pc = "persist"
    /\ pc' = "done"
    /\ UNCHANGED <<problem, extVars, round, EPSILON, indexVars, iterVars, xr_total, ctorVars, lpVars>>

Next == SolveSetup \/ Round \/ Persist

Spec == Init /\ [][Next]_vars

\* ------------------------------------------------ solving and sol_dict
\* a model has at most MaxSolCommodities commodities
MaxSolCommodities == 4
\* raw capacities, demands and flow values of the problems solved by the LP
SolCapacityChoices == {0, 10}
SolDemandChoices == {0, 5, 15}
FlowGrid == {0, 5, 10, 15}

SolProblems ==
    {[capacity |-> c, commodity_list |-> CommodityList(d)] :
        c \in [Edges -> SolCapacityChoices],
        d \in UNION {[1..n -> SolDemandChoices] :
                        n \in 1..Min2(MaxSolCommodities, Len(ODPairs))}}

\* an instance built by get_pf_for_obj for one of the four objectives, fresh
\* or in warm-start mode, and a problem
InitSol ==
    /\ pc = "sol_start"
    /\ problem \in SolProblems
    /\ \E w \in BOOLEAN, objective \in Objectives :
          /\ formulation = [get_pf_for_obj(objective, 1, TRUE, "inv-cap").value
                               EXCEPT !.warm_start_mode = w]
          /\ call = [entry |-> "get_pf_for_obj", objective |-> objective, num_paths |-> 1,
                     edge_disjoint |-> TRUE, dist_metric |-> "inv-cap"]
    /\ has_paths_dict = FALSE
    /\ DualIdle
    /\ LpIdle
    /\ ExtIdle

\* self._solver = self._construct_lp([]), lines 431-436
BuildModel ==
    /\ pc = "sol_start"
    /\ ConstructLp
    /\ pc' = IF ConstructPathLpRaises(formulation.objective, commodities')
             THEN "lp_raised" ELSE "built"
    /\ UNCHANGED <<problem, extVars, round, EPSILON, indexVars, iterVars, xr_total, formulation,
                   call, sol_dict>>

\* The value of the auxiliary variable (z or alpha) is counted in units of
\* 1 / AuxDen; AuxMax is the largest value of the grid.
AuxDen == 6
AuxMax == 3 * AuxDen

Compare(sense, l, r) ==
    IF sense = "<=" THEN l <= r ELSE IF sense = ">=" THEN l >= r ELSE l = r

\* the assignment (x, aux) satisfies the constraint c
Holds(c, x, aux) ==
    LET lhs == SumSeq(c.ids, x)
    IN  IF c.aux THEN Compare(c.sense, lhs * AuxDen, aux * c.div)
        ELSE Compare(c.sense, lhs, c.rhs * c.div)

\* the model has an auxiliary variable: it is the one after the path variables
HasAux == Len(model_bounds) > Len(all_paths)

\* the assignment satisfies every constraint and every bound of the model
Satisfies(x, aux) ==
    /\ \A i \in 1..Len(model_constrs) : Holds(model_constrs[i], x, aux)
    /\ \A q \in DOMAIN x : x[q] >= model_bounds[q + 1].lb
    /\ IF HasAux
       THEN LET b == model_bounds[Len(model_bounds)]
            IN  aux >= b.lb * AuxDen /\ (b.ub = Unbounded \/ aux <= b.ub * AuxDen)
       ELSE aux = 0

RECURSIVE TotalFlow(_, _)
\* line 159: quicksum(path_vars), over the path ids below n
TotalFlow(x, n) == IF n = 0 THEN 0 ELSE x[n - 1] + TotalFlow(x, n - 1)

\* the assignments of the grid that satisfy the model
FeasibleSet ==
    {s \in [x : [0..(Len(all_paths) - 1) -> FlowGrid], aux : 0..AuxMax] :
        Satisfies(s.x, s.aux)}

\* lines 136, 159, 168, 169: what the model maximizes (a minimized z counts
\* negatively)
ObjectiveValue(objective, s) ==
    IF objective = "TOTAL_FLOW" THEN TotalFlow(s.x, Len(all_paths))
    ELSE IF objective = "MAX_CONCURRENT_FLOW" THEN s.aux
    ELSE 0 - s.aux

\* the assignments the solver may return
OptimalFlows ==
    LET candidates == FeasibleSet
        values == {ObjectiveValue(formulation.objective, s) : s \in candidates}
        best == CHOOSE v \in values : \A w \in values : w <= v
    IN  IF candidates = {} THEN {}
        ELSE {s \in candidates : ObjectiveValue(formulation.objective, s) = best}

\* the external solver solves the model: every variable gets its value
SolveLp ==
    /\ pc = "built"
    /\ \E s \in OptimalFlows :
          model_vars' = [i \in 1..Len(model_vars) |->
                            [varName |-> model_vars[i].varName,
                             x |-> IF i <= Len(all_paths) THEN s.x[i - 1] ELSE s.aux]]
    /\ optimized' = TRUE
    /\ pc' = "solved"
    /\ UNCHANGED <<problem, extVars, round, EPSILON, indexVars, iterVars, xr_total, ctorVars,
                   commodity_list, commodities, path_to_commod, all_paths, edge_to_paths,
                   sol_dict, model_constrs, model_bounds>>

\* var.varName.startswith("f["), line 443
StartsWithF(name) == Len(name) >= 2 /\ name[1] = "f" /\ name[2] = "["

IsDigit(ch) == \E d \in 1..10 : DigitChars[d] = ch
DigitValue(ch) == (CHOOSE d \in 1..10 : DigitChars[d] = ch) - 1

RECURSIVE ParseDigits(_, _, _)
\* int of the run of digits of name that starts at position i, given the value
\* acc of the digits before it
ParseDigits(name, i, acc) ==
    IF i <= Len(name) /\ IsDigit(name[i])
    THEN ParseDigits(name, i + 1, acc * 10 + DigitValue(name[i]))
    ELSE acc

\* lines 444-445: int(re.match(r"f\[(\d+)\]", var.varName).group(1))
ParsePathIndex(name) == ParseDigits(name, 3, 0)

\* the commodity whose entry collects the flow of path p, line 446:
\* self.commodity_list[self._path_to_commod[p]]
OwnerIndex(q) == path_to_commod[q] + 1

\* line 447: [(edge, var.x) for edge in path_to_edge_list(self._all_paths[p])]
FlowPairs(path, x) ==
    [i \in 1..Len(path_to_edge_list(path)) |-> <<path_to_edge_list(path)[i], x>>]

RECURSIVE SolDictDef(_)
\* lines 441-448 over the first i variables: sol_dict_def, or the IndexError
\* of the list lookup of line 446
SolDictDef(i) ==
    IF i = 0 THEN [raised |-> FALSE, d |-> EmptyDict]
    ELSE LET before == SolDictDef(i - 1)
             var == model_vars[i]
         IN  IF before.raised THEN before
             ELSE IF ~(StartsWithF(var.varName) /\ var.x # 0) THEN before
             ELSE LET q == ParsePathIndex(var.varName)
                  IN  IF OwnerIndex(q) > Len(commodity_list)
                      THEN [raised |-> TRUE, d |-> before.d]
                      ELSE LET key == commodity_list[OwnerIndex(q)]
                           IN  [raised |-> FALSE,
                                d |-> Put(before.d, key,
                                          Get(before.d, key, <<>>)
                                          \o FlowPairs(all_paths[q + 1], var.x))]

\* the sol_dict property, lines 438-459, read for the first time
SolDict ==
    /\ pc = "solved"
    /\ ~sol_dict.exists
    /\ LET def == SolDictDef(Len(model_vars))
           keys == {problem.commodity_list[i] : i \in 1..Len(problem.commodity_list)}
       IN  IF def.raised
           THEN pc' = "sol_raised" /\ UNCHANGED sol_dict
           ELSE /\ pc' = "sol_done"
                /\ sol_dict' = [exists |-> TRUE,
                                d |-> [c \in keys |-> Get(def.d, c, <<>>)]]
    /\ UNCHANGED <<problem, extVars, round, EPSILON, indexVars, iterVars, xr_total, ctorVars,
                   commodity_list, commodities, path_to_commod, all_paths, edge_to_paths,
                   model_vars, optimized, model_constrs, model_bounds>>

NextSol == BuildModel \/ SolveLp \/ SolDict

SpecSol == InitSol /\ [][NextSol]_vars

\* ------------------------------------------------------------ paths cache
RECURSIVE StripCycles(_, _)
\* remove_cycles(path): a node met again cuts the walk back to its first visit
StripCycles(done, rest) ==
    IF rest = <<>> THEN done
    ELSE IF \E i \in 1..Len(done) : done[i] = Head(rest)
         THEN StripCycles(SubSeq(done, 1, CHOOSE i \in 1..Len(done) : done[i] = Head(rest)),
                          Tail(rest))
         ELSE StripCycles(Append(done, Head(rest)), Tail(rest))

remove_cycles(path) == StripCycles(<<>>, path)

\* compute_paths, lines 206-216: the cycle-free paths of every pair s != t
compute_paths(p, num_paths, edge_disjoint, dist_metric) ==
    [site \in DOMAIN get_paths(p) |->
        [i \in 1..Len(get_paths(p)[site]) |-> remove_cycles(get_paths(p)[site][i])]]

\* a paths dict written by another run whose walk 0 -> 2 loops through 1 twice
LoopingPathsDict(p) ==
    [get_paths(p) EXCEPT ![<<0, 2>>] = <<<<0, 1, 0, 1, 2>>>>]

\* the cache file: missing, unreadable by pickle.load, or holding a paths dict
CacheFiles(p) ==
    {[state |-> "missing"], [state |-> "corrupt"]}
    \cup {[state |-> "valid", dict |-> d] : d \in {get_paths(p), LoopingPathsDict(p)}}

NoPaths == [exists |-> FALSE]

\* before a call of read_paths_from_disk_or_compute(problem, num_paths,
\* edge_disjoint, dist_metric)
InitCache ==
    /\ pc = "cache_start"
    /\ problem \in Problems
    /\ formulation = NoInstance
    /\ \E n \in 1..MaxNumPaths, d \in BOOLEAN, m \in {"inv-cap", "min-hop"} :
          call = [entry |-> "read_paths_from_disk_or_compute", objective |-> "none",
                  num_paths |-> n, edge_disjoint |-> d, dist_metric |-> m]
    /\ has_paths_dict = FALSE
    /\ DualIdle
    /\ LpIdle
    /\ BenchIdle
    /\ cache_file \in CacheFiles(problem)
    /\ paths_dir_writable \in BOOLEAN
    /\ paths_result = NoPaths

\* read_paths_from_disk_or_compute, lines 219-242
ReadPathsFromDiskOrCompute ==
    /\ pc \in {"cache_start", "cache_returned"}
    /\ IF cache_file.state = "valid"
       THEN \* lines 227-233: load, strip cycles, return
            /\ paths_result' =
                  [exists |-> TRUE,
                   dict |-> [site \in DOMAIN cache_file.dict |->
                               [i \in 1..Len(cache_file.dict[site]) |->
                                   remove_cycles(cache_file.dict[site][i])]]]
            /\ pc' = "cache_returned"
            /\ UNCHANGED cache_file
       ELSE IF cache_file.state = "corrupt"
       THEN \* line 228: pickle.load raises; only FileNotFoundError is caught
            /\ pc' = "cache_raised"
            /\ UNCHANGED <<cache_file, paths_result>>
       ELSE \* lines 234-242: compute, write back, return
            IF paths_dir_writable
            THEN /\ cache_file' =
                       [state |-> "valid",
                        dict |-> compute_paths(problem, call.num_paths, call.edge_disjoint,
                                               call.dist_metric)]
                 /\ paths_result' = [exists |-> TRUE, dict |-> cache_file'.dict]
                 /\ pc' = "cache_returned"
            ELSE \* line 240: open(paths_fname, "wb") raises inside the handler
                 /\ pc' = "cache_raised"
                 /\ UNCHANGED <<cache_file, paths_result>>
    /\ UNCHANGED <<problem, round, EPSILON, indexVars, iterVars, xr_total, ctorVars, lpVars,
                   benchVars, paths_dir_writable>>

NextCache == ReadPathsFromDiskOrCompute

SpecCache == InitCache /\ [][NextCache]_vars

\* ------------------------------------------------------ benchmark drivers
\* the sweep runs over at most MaxProblems problems
MaxProblems == 2

Drivers == {"pop", "pop_num_subproblems_sweep"}

\* pop_num_subproblems_sweep.py lines 44, 45, 68
SPLIT_METHOD == "random"
SPLIT_FRACTION == 0
NUM_SUBPROBLEMS_SWEEP == <<4, 16, 64>>

\* args.num_subproblems, args.split_methods, args.split_fractions of pop.py
NumSubproblemsArgs == {<<16, 64>>, <<16>>}
SplitMethodsArgs == {<<"random">>}
SplitFractionsArgs == {<<0>>}

\* itertools.product of three lists: the last list varies fastest
Product(as, bs, cs) ==
    [i \in 1..(Len(as) * Len(bs) * Len(cs)) |->
        <<as[((i - 1) \div (Len(bs) * Len(cs))) + 1],
          bs[(((i - 1) \div Len(cs)) % Len(bs)) + 1],
          cs[((i - 1) % Len(cs)) + 1]>>]

\* the (num_subproblems, split_method, split_fraction) swept for each problem
ConfigLists(d) ==
    IF d = "pop"
    THEN {Product(ns, ms, fs) :
             ns \in NumSubproblemsArgs, ms \in SplitMethodsArgs, fs \in SplitFractionsArgs}
    ELSE {[i \in 1..Len(NUM_SUBPROBLEMS_SWEEP) |->
              <<NUM_SUBPROBLEMS_SWEEP[i], SPLIT_METHOD, SPLIT_FRACTION>>]}

\* mutant of TrySteps: the row is written before the feasibility check
TrySteps_rowfirst(d) ==
    <<"run_pop_dir", "open_log", "construct", "solve", "sol_dict", "format_row",
      "write_row", "snapshot", "feasibility">>

\* the statements of the try block in program order: pop.py lines 94-169,
\* pop_num_subproblems_sweep.py lines 79-152
TrySteps(d) ==
    IF d = "pop"
    THEN <<"run_pop_dir", "open_log", "construct", "solve", "sol_dict", "snapshot",
           "feasibility", "format_row", "write_row">>
    ELSE <<"run_pop_dir", "open_log", "construct", "solve", "sol_dict", "feasibility",
           "snapshot", "format_row", "write_row">>

\* where control goes after the statement step of the try block has returned
After(step) ==
    LET steps == TrySteps(driver)
        i == CHOOSE j \in 1..Len(steps) : steps[j] = step
    IN  IF i = Len(steps) THEN "next_config" ELSE steps[i + 1]

\* the key of the configuration being run
Current == <<prob_i, cfg_i>>

\* benchmark(problems, output_csv, ...) is called
InitBench ==
    /\ pc = "open_results"
    /\ problem = CHOOSE q \in Problems : TRUE
    /\ formulation = NoInstance
    /\ call = NoCall
    /\ has_paths_dict = FALSE
    /\ DualIdle
    /\ LpIdle
    /\ CacheIdle
    /\ driver \in Drivers
    /\ configs \in ConfigLists(driver)
    /\ num_problems \in 1..MaxProblems
    /\ prob_i = 0 /\ cfg_i = 0
    /\ results = <<>>
    /\ attempted = {} /\ solved = FALSE /\ feasible = FALSE

benchRest == <<problem, round, EPSILON, indexVars, iterVars, xr_total, ctorVars, lpVars,
               cacheVars, driver, configs, num_problems>>

\* pop.py lines 64-65: the CSV is opened for appending and the header written
OpenResults ==
    /\ pc = "open_results"
    /\ results' = Append(results, <<"HEADERS">>)
    /\ pc' = "next_problem"
    /\ UNCHANGED <<benchRest, prob_i, cfg_i, attempted, solved, feasible>>

\* lines 66-80: the next problem of the list is loaded, or the sweep ends
NextProblem ==
    /\ pc = "next_problem"
    /\ IF prob_i = num_problems
       THEN pc' = "bench_done" /\ UNCHANGED <<prob_i, cfg_i>>
       ELSE pc' = "next_config" /\ prob_i' = prob_i + 1 /\ cfg_i' = 0
    /\ UNCHANGED <<benchRest, results, attempted, solved, feasible>>

\* lines 82-84: the next configuration of the product, or the next problem
NextConfig ==
    /\ pc = "next_config"
    /\ IF cfg_i = Len(configs)
       THEN pc' = "next_problem" /\ UNCHANGED <<cfg_i, attempted, solved, feasible>>
       ELSE /\ pc' = "run_dir"
            /\ cfg_i' = cfg_i + 1
            /\ attempted' = attempted \cup {<<prob_i, cfg_i + 1>>}
            /\ solved' = FALSE /\ feasible' = FALSE
    /\ UNCHANGED <<benchRest, prob_i, results>>

\* lines 85-91, before the try: os.makedirs(run_dir); a failure leaves
\* benchmark
MakeRunDir ==
    /\ pc = "run_dir"
    /\ \E ok \in BOOLEAN : pc' = IF ok THEN TrySteps(driver)[1] ELSE "bench_aborted"
    /\ UNCHANGED <<benchRest, prob_i, cfg_i, results, attempted, solved, feasible>>

\* a statement of the try block returns or raises; raising enters the handler
TryStep(step) ==
    /\ pc = step
    /\ \E ok \in BOOLEAN : pc' = IF ok THEN After(step) ELSE "except"
    /\ UNCHANGED <<benchRest, prob_i, cfg_i, attempted>>

\* lines 104-115: os.makedirs(run_pop_dir)
MakeRunPopDir == TryStep("run_pop_dir") /\ UNCHANGED <<results, solved, feasible>>

\* lines 116-130: the log file is opened
OpenLog == TryStep("open_log") /\ UNCHANGED <<results, solved, feasible>>

\* lines 131-142: POP(...)
ConstructPop == TryStep("construct") /\ UNCHANGED <<results, solved, feasible>>

\* line 143: pop.solve(problem)
PopSolve ==
    /\ TryStep("solve")
    /\ solved' = (pc' # "except")
    /\ UNCHANGED <<results, feasible>>

\* line 144: pop.sol_dict
ReadSolDict == TryStep("sol_dict") /\ UNCHANGED <<results, solved, feasible>>

\* lines 145-146: the solution is pickled next to the log
WriteSnapshot == TryStep("snapshot") /\ UNCHANGED <<results, solved, feasible>>

\* line 147: check_feasibility(problem, [sol_dict])
CheckFeasibility ==
    /\ TryStep("feasibility")
    /\ feasible' = (pc' # "except")
    /\ UNCHANGED <<results, solved>>

\* lines 149-168: the row is formatted, reading pop.obj_val and runtime_est
FormatRow == TryStep("format_row") /\ UNCHANGED <<results, solved, feasible>>

\* line 169: print_(result_line, file=results)
WriteRow ==
    /\ TryStep("write_row")
    /\ results' = IF pc' # "except"
                  THEN Append(results, <<prob_i, cfg_i, configs[cfg_i]>>)
                  ELSE results
    /\ UNCHANGED <<solved, feasible>>

\* lines 171-183: the bare except prints the failure and the traceback
HandleException ==
    /\ pc = "except"
    /\ pc' = "next_config"
    /\ UNCHANGED <<benchRest, prob_i, cfg_i, results, attempted, solved, feasible>>

NextBench ==
    \/ OpenResults
    \/ NextProblem
    \/ NextConfig
    \/ MakeRunDir
    \/ MakeRunPopDir
    \/ OpenLog
    \/ ConstructPop
    \/ PopSolve
    \/ ReadSolDict
    \/ WriteSnapshot
    \/ CheckFeasibility
    \/ FormatRow
    \/ WriteRow
    \/ HandleException

SpecBench == InitBench /\ [][NextBench]_vars

\* ================================================================ claims
\* the rounds of the loop that ran to their end
Completed ==
    IF pc = "loop" \/ pc = "raised" THEN round - 1
    ELSE IF pc = "persist" \/ pc = "done" THEN round ELSE 0

\* a round has assigned the new multipliers and allocations
RoundRan == pc # "start" /\ DOMAIN xr_new = DOMAIN all_paths_dicty /\ EPSILON # 0

Abs(x) == IF x >= 0 THEN x ELSE 0 - x

\* the set of edges of a path
EdgesOf(path) == {<<path[i], path[i + 1]>> : i \in 1..(Len(path) - 1)}

\* the minimum normalized capacity over the edges of the path with id p
Bottleneck(p) ==
    LET caps == {edge_to_capacity[e] : e \in EdgesOf(all_paths_dicty[p])}
    IN  CHOOSE c \in caps : \A d \in caps : c <= d

RECURSIVE SumSet(_, _)
SumSet(S, f) == IF S = {} THEN 0
                ELSE LET x == CHOOSE y \in S : TRUE IN f[x] + SumSet(S \ {x}, f)

\* (sum of the new edge multipliers over p's edges) - (new site multiplier of
\* p's (first node, last node) pair)
NewDenominator(p) ==
    LET path == all_paths_dicty[p]
    IN  SumSet(EdgesOf(path), mu_new) - nu_new[<<path[1], path[Len(path)]>>]

\* floor(t / r) in micro-units for the two-limb total t and 1 <= r <= MAX_ROUNDS
Mean(t, r) ==
    LET h == (t[1] % r) * 1000
    IN  (t[1] \div r) * Unit + (h \div r) * 1000 + (((h % r) * 1000 + t[2]) \div r)

\* C1: solve leaves its loop only after exactly MAX_ROUNDS rounds, for every
\* problem: whenever the loop has been left, round = MAX_ROUNDS and MAX_ROUNDS
\* rounds ran to their end.
C1_ExactlyMaxRounds ==
    (pc \in {"raised", "persist", "done"}) => (round = MAX_ROUNDS /\ Completed = MAX_ROUNDS)

\* C2: after every round, every path's new allocation is the bottleneck
\* capacity when the denominator built from the same round's new multipliers
\* is <= 0, and min(1/denominator, bottleneck) otherwise; so it lies in
\* [0, bottleneck].
C2_AllocationRule ==
    RoundRan =>
        \A p \in DOMAIN all_paths_dicty :
            /\ xr_new[p] = IF NewDenominator(p) <= 0 THEN Bottleneck(p)
                           ELSE Min2(Recip(NewDenominator(p)), Bottleneck(p))
            /\ 0 <= xr_new[p]
            /\ xr_new[p] <= Bottleneck(p)

\* C2 witness: one round took both branches: a path with denominator <= 0 got
\* its (positive) bottleneck, another path with denominator > 0 got the
\* reciprocal capped by a smaller bottleneck.
C2_Witness ==
    /\ RoundRan
    /\ \E p, q \in DOMAIN all_paths_dicty :
          /\ NewDenominator(p) <= 0 /\ xr_new[p] = Bottleneck(p) /\ xr_new[p] > 0
          /\ NewDenominator(q) > 0 /\ xr_new[q] > 0 /\ Bottleneck(q) < Bottleneck(p)

\* C3: after every completed round r the averaged value of every path equals
\* the arithmetic mean of its allocations in rounds 1..r (to one micro-unit),
\* whichever branch of the allocation rule the rounds took.
C3_AverageIsMean ==
    (Completed >= 1 /\ pc # "raised") =>
        \A p \in DOMAIN all_paths_dicty :
            Abs(Get(xr_bar_new, p, <<0, 0>>)[1] - Mean(xr_total[p], Completed)) <= 1

\* C4: with all capacities >= 0 no round of the dual solve raises.
C4_NoRoundRaises == pc # "raised"

\* C5: after the update step of every round every edge, site and path
\* multiplier is >= 0.
C5_MultipliersNonNegative ==
    RoundRan =>
        /\ \A e \in DOMAIN mu_new : mu_new[e] >= 0
        /\ \A s \in DOMAIN nu_new : nu_new[s] >= 0
        /\ \A p \in DOMAIN beta_new : beta_new[p] >= 0

\* C5 witness: a round in which the projection was active for an edge, a site
\* and a path multiplier at once (each started from a positive value).
C5_Witness ==
    /\ RoundRan
    /\ \E e \in DOMAIN mu_new : mu_new[e] = 0
    /\ \E s \in DOMAIN nu_new : nu_new[s] = 0
    /\ \E p \in DOMAIN beta_new : beta_new[p] = 0

\* C6 (as claimed): the step shrinks with the round index: a later round
\* (round index >= 10) uses a strictly smaller step than round 1 did.
C6_StepShrinks ==
    (RoundRan /\ Completed >= 10) => EPSILON < StepSize(1)

\* C6 (amended): the step is the cap 0.009 in every round, round 1 included:
\* it never changes with the round index.
C6_StepIsConstant ==
    RoundRan => (EPSILON = (9 * Unit) \div 1000 /\ EPSILON = StepSize(1))

\* C6 witness: a late round has run.
C6_Witness == RoundRan /\ Completed >= 10 /\ EPSILON = StepSize(Completed)

\* raw / 1000 in micro-units (Unit = 1000 * 1000)
RawOver1000(raw) == raw * 1000

\* C7: everything that enters the first round is the raw value divided by
\* NORMALIZATION: the edge capacities, the site demands and the initial flow of
\* every path (seeded from its commodity's demand).
C7_FirstRoundInputsNormalized ==
    (pc = "loop" /\ round = 1) =>
        /\ \A e \in DOMAIN edge_to_capacity :
              edge_to_capacity[e] = RawOver1000(problem.capacity[e])
        /\ \A i \in 1..Len(problem.commodity_list) :
              LET c == problem.commodity_list[i][2]
              IN  /\ sites_to_demand[<<c[1], c[2]>>] = RawOver1000(c[3])
                  /\ \A j \in 1..Len(sites_to_path_ids[<<c[1], c[2]>>]) :
                        xr_old[sites_to_path_ids[<<c[1], c[2]>>][j]] = RawOver1000(c[3])

\* C9 (as claimed): get_pf_for_obj called with an objective that is no member
\* of Objective signals an error to its caller: the call raises.
C9_UnknownObjectiveRaises ==
    (call.entry = "get_pf_for_obj" /\ call.objective \notin Objectives)
        => pc = "ctor_raised"

\* C10: a constructor or new_* factory call raises exactly when its dist_metric
\* is neither "inv-cap" nor "min-hop"; so every instance that exists, and every
\* instance that loaded paths, has a valid metric.
C10_InvalidMetricRaises ==
    /\ (call.entry \in {"__init__", "new_total_flow", "new_max_concurrent_flow",
                        "new_min_max_link_util", "compute_demand_scale_factor"})
          => /\ (pc = "ctor_raised") <=> (call.dist_metric \notin {"inv-cap", "min-hop"})
             /\ (pc = "ctor_raised") => ~formulation.exists
             /\ (pc # "ctor_raised") =>
                   (formulation.exists /\ formulation.dist_metric = call.dist_metric)
    /\ formulation.exists => formulation.dist_metric \in {"inv-cap", "min-hop"}
    /\ has_paths_dict => formulation.exists

\* C10 witness: a factory call with an invalid metric raised and left no instance.
C10_Witness ==
    /\ call.entry = "new_min_max_link_util"
    /\ call.dist_metric = "hops"
    /\ pc = "ctor_raised"
    /\ ~formulation.exists

\* the flow the solved model gives the path with id q
FlowOf(q) == model_vars[q + 1].x

RECURSIVE PairsOfPaths(_, _)
\* the (edge, flow) pairs of the nonzero-flow paths among the path ids in ids
PairsOfPaths(ids, i) ==
    IF i > Len(ids) THEN <<>>
    ELSE (IF FlowOf(ids[i]) # 0
          THEN [j \in 1..(Len(all_paths[ids[i] + 1]) - 1) |->
                   <<<<all_paths[ids[i] + 1][j], all_paths[ids[i] + 1][j + 1]>>,
                     FlowOf(ids[i])>>]
          ELSE <<>>)
         \o PairsOfPaths(ids, i + 1)

\* the path ids of the commodity with key k: the path_ids of its entry in
\* self.commodities, none when the model holds no such commodity
PathIdsOfKey(k) ==
    IF \E i \in 1..Len(commodities) : commodities[i][1] = k
    THEN commodities[CHOOSE i \in 1..Len(commodities) : commodities[i][1] = k][3]
    ELSE <<>>

\* C8: reading sol_dict of a solved model gives a dict whose keys are exactly
\* the elements of problem.commodity_list; a commodity without nonzero-flow
\* path maps to the empty list, a commodity with flow to the (edge, flow)
\* pairs of its nonzero-flow paths.
C8_SolDictCoversCommodities ==
    (pc \in {"sol_done", "sol_raised"}) =>
        /\ sol_dict.exists
        /\ DOMAIN sol_dict.d =
              {problem.commodity_list[i] : i \in 1..Len(problem.commodity_list)}
        /\ \A c \in DOMAIN sol_dict.d :
              sol_dict.d[c] = PairsOfPaths(PathIdsOfKey(c[1]), 1)

\* Scenario A: capacity 10 on both edges, the single commodity (0, 2, 5)
ScenarioA ==
    [capacity |-> [e \in Edges |-> 10], commodity_list |-> CommodityList(<<5>>)]

\* C16: on Scenario A, after the R rounds of the dual solve the averaged flow
\* of the path, multiplied back by NORMALIZATION, is within 5% of the
\* TOTAL_FLOW optimum 5.
C16_WithinFivePercent ==
    (problem = ScenarioA /\ pc \in {"persist", "done"}) =>
        /\ DOMAIN xr_bar_new = {0}
        /\ Abs(xr_bar_new[0][1] * NORMALIZATION - 5 * Unit) * 100 <= 5 * (5 * Unit)

\* --------------------------------------------------- claims on the LP model
\* a model was built by _construct_lp
ModelBuilt == pc \in {"built", "solved", "sol_done", "sol_raised"}

\* the elements of a sequence
Elems(seq) == {seq[i] : i \in 1..Len(seq)}

\* the ids of the paths that cross edge e, read off the paths themselves
Crossing(e) ==
    {q \in 0..(Len(all_paths) - 1) :
        \E j \in 1..(Len(all_paths[q + 1]) - 1) :
            all_paths[q + 1][j] = e[1] /\ all_paths[q + 1][j + 1] = e[2]}

\* the ids of the paths of the commodity with key k, read off _path_to_commod
Owned(k) == {q \in DOMAIN path_to_commod : path_to_commod[q] = k}

\* the aggregate flow of the assignment x over the paths in S
Load(S, x) == SumSet(S, x)

\* the value of the auxiliary variable of the solved model, in 1 / AuxDen
AuxValue == model_vars[Len(model_vars)].x

\* the flows of the solved model
SolvedFlows == [q \in 0..(Len(all_paths) - 1) |-> model_vars[q + 1].x]

\* C12: under MAX_CONCURRENT_FLOW, for every commodity list (zero demands
\* included) model construction succeeds, and the model has a scalar alpha in
\* [0, 1] and, for every commodity, a constraint equivalent to
\* (sum of its path flows) >= alpha * d_k.
C12_ConcurrentFlowModel ==
    (formulation.objective = "MAX_CONCURRENT_FLOW" /\ pc # "sol_start") =>
        /\ pc # "lp_raised"
        /\ HasAux
        /\ model_vars[Len(model_vars)].varName = <<"a">>
        /\ model_bounds[Len(model_bounds)] = [lb |-> 0, ub |-> 1]
        /\ \A s \in FeasibleSet :
              \A i \in 1..Len(commodity_list) :
                  Load(Owned(commodity_list[i][1]), s.x) * AuxDen
                      >= s.aux * commodity_list[i][2][3]

\* C13: for every assignment that satisfies the model built for
\* MIN_MAX_LINK_UTIL (or COMPUTE_DEMAND_SCALE_FACTOR), each commodity's path
\* flows sum exactly to its demand, every path crossing a zero-capacity edge
\* carries zero flow, and z (in [0, 1]; only bounded below by 0 for
\* COMPUTE_DEMAND_SCALE_FACTOR) is at least flow / capacity on every
\* positive-capacity edge; at the optimum z equals the maximum utilization.
C13_MinMaxLinkUtilModel ==
    (formulation.objective \in {"MIN_MAX_LINK_UTIL", "COMPUTE_DEMAND_SCALE_FACTOR"}
     /\ ModelBuilt) =>
        /\ HasAux
        /\ model_vars[Len(model_vars)].varName = <<"z">>
        /\ model_bounds[Len(model_bounds)] =
              [lb |-> 0,
               ub |-> IF formulation.objective = "MIN_MAX_LINK_UTIL" THEN 1 ELSE Unbounded]
        /\ \A s \in FeasibleSet :
              /\ \A i \in 1..Len(commodity_list) :
                    Load(Owned(commodity_list[i][1]), s.x) = commodity_list[i][2][3]
              /\ \A e \in Edges :
                    IF problem.capacity[e] = 0
                    THEN \A q \in Crossing(e) : s.x[q] = 0
                    ELSE Load(Crossing(e), s.x) * AuxDen <= s.aux * problem.capacity[e]
        /\ optimized =>
              \/ \E e \in Edges :
                    /\ problem.capacity[e] > 0
                    /\ Load(Crossing(e), SolvedFlows) * AuxDen
                          = AuxValue * problem.capacity[e]
              \/ AuxValue = 0

\* C13 witness: a solved MIN_MAX_LINK_UTIL model in which a path crosses a
\* zero-capacity edge and a positive-capacity edge is half used, z = 1/2
C13_Witness ==
    /\ formulation.objective = "MIN_MAX_LINK_UTIL"
    /\ pc = "solved"
    /\ \E e \in Edges : problem.capacity[e] = 0 /\ Crossing(e) # {}
    /\ \E e \in Edges : problem.capacity[e] > 0 /\ Load(Crossing(e), SolvedFlows) > 0
    /\ 2 * AuxValue = AuxDen

\* the smallest capacity over the edges of the path with id q
PathCapacity(q) ==
    LET caps == {problem.capacity[e] : e \in {f \in Edges : q \in Crossing(f)}}
    IN  CHOOSE c \in caps : \A d \in caps : c <= d

\* C14: for every assignment of path flows that satisfies the model built for
\* TOTAL_FLOW, the aggregate flow over the paths crossing any edge is at most
\* the edge's capacity and the aggregate flow over any commodity's paths is at
\* most its demand; on a single path whose minimum edge capacity is below the
\* demand the maximum total flow equals that capacity.
C14_TotalFlowFeasible ==
    (formulation.objective = "TOTAL_FLOW" /\ ModelBuilt) =>
        /\ \A s \in FeasibleSet :
              /\ \A e \in Edges :
                    Crossing(e) # {} => Load(Crossing(e), s.x) <= problem.capacity[e]
              /\ \A i \in 1..Len(commodity_list) :
                    Load(Owned(commodity_list[i][1]), s.x) <= commodity_list[i][2][3]
        /\ (optimized /\ Len(all_paths) = 1 /\ PathCapacity(0) < commodity_list[1][2][3]) =>
              SolvedFlows[0] = PathCapacity(0)

\* C14 witness: the single path [0, 1, 2] with capacity 10 and demand 15 is
\* solved to flow 10
C14_Witness ==
    /\ formulation.objective = "TOTAL_FLOW"
    /\ pc = "solved"
    /\ all_paths = <<<<0, 1, 2>>>>
    /\ PathCapacity(0) = 10
    /\ commodity_list[1][2][3] = 15
    /\ SolvedFlows[0] = 10

RECURSIVE PairsOfSet(_)
\* the (edge, flow) pairs of the nonzero-flow paths with ids in S, by path id
PairsOfSet(S) ==
    IF S = {} THEN <<>>
    ELSE LET q == CHOOSE m \in S : \A o \in S : m <= o
         IN  (IF FlowOf(q) # 0
              THEN [j \in 1..(Len(all_paths[q + 1]) - 1) |->
                       <<<<all_paths[q + 1][j], all_paths[q + 1][j + 1]>>, FlowOf(q)>>]
              ELSE <<>>)
             \o PairsOfSet(S \ {q})

\* C17: for every path with nonzero solved flow, sol_dict lists the path's
\* (edge, flow) pairs under the commodity with key _path_to_commod[p] and
\* under no other commodity, with the full commodity list and in warm-start
\* mode with the sparse commodity list alike.
C17_FlowUnderOwnCommodity ==
    (pc \in {"sol_done", "sol_raised"}) =>
        /\ sol_dict.exists
        /\ \A i \in 1..Len(problem.commodity_list) :
              LET c == problem.commodity_list[i]
              IN  c \in DOMAIN sol_dict.d /\ sol_dict.d[c] = PairsOfSet(Owned(c[1]))

\* C18: after pre_solve the path ids are exactly 0..n-1 with n = len(_all_paths);
\* every path id is in the path_ids of exactly one entry of self.commodities
\* and _path_to_commod maps it to that entry's key; a path id occurs in
\* edge_to_paths[e] exactly if e is an edge of the path; and self.commodities
\* has one entry per commodity, in commodity_list order, also for a commodity
\* without path.
C18_PreSolveIndexes ==
    (pc \in {"built", "lp_raised", "solved", "sol_done", "sol_raised"}) =>
        LET ids == 0..(Len(all_paths) - 1)
        IN  /\ DOMAIN path_to_commod = ids
            /\ \A q \in ids :
                  /\ \E i \in 1..Len(commodities) :
                        /\ q \in Elems(commodities[i][3])
                        /\ path_to_commod[q] = commodities[i][1]
                        /\ \A j \in 1..Len(commodities) :
                              q \in Elems(commodities[j][3]) => j = i
                        /\ all_paths[q + 1] \in
                              Elems(get_paths(problem)[<<commodity_list[i][2][1],
                                                         commodity_list[i][2][2]>>])
            /\ \A e \in Edges, q \in ids :
                  (e \in DOMAIN edge_to_paths /\ q \in Elems(edge_to_paths[e]))
                      <=> q \in Crossing(e)
            /\ \A e \in DOMAIN edge_to_paths : Elems(edge_to_paths[e]) \subseteq ids
            /\ Len(commodities) = Len(commodity_list)
            /\ \A i \in 1..Len(commodity_list) :
                  /\ commodities[i][1] = commodity_list[i][1]
                  /\ commodities[i][2] = commodity_list[i][2][3]
                  /\ Elems(commodities[i][3]) \subseteq ids
                  /\ Len(commodities[i][3]) = Cardinality(Elems(commodities[i][3]))

\* C18 witness: pre_solve has run on a list with a commodity that has no path
\* after one that has a two-edge path
C18_Witness ==
    /\ pc = "built"
    /\ \E i \in 1..Len(commodities) : commodities[i][3] = <<>>
    /\ \E i \in 1..Len(commodities) : commodities[i][3] # <<>>
    /\ \E q \in DOMAIN path_to_commod : Len(all_paths[q + 1]) = 3

\* C11: read_paths_from_disk_or_compute never fails because of the cache: when
\* the cache file is missing or cannot be deserialized the call falls back to
\* compute_paths and returns the computed path set, also when the write-back
\* cannot be performed.
C11_CacheNeverFails ==
    /\ pc # "cache_raised"
    /\ pc = "cache_returned" =>
          /\ paths_result.exists
          /\ paths_result.dict = compute_paths(problem, call.num_paths, call.edge_disjoint,
                                               call.dist_metric)

\* every configuration of every problem of the sweep
AllConfigurations == (1..num_problems) \X (1..Len(configs))

\* C15: in both drivers a failure raised anywhere in one configuration's run
\* (run-directory creation, log-file creation, POP construction, solve,
\* snapshot write, feasibility check or row write) does not abort the sweep:
\* benchmark ends only after every configuration of every problem was
\* attempted.
C15_SweepContinues ==
    /\ pc # "bench_aborted"
    /\ pc = "bench_done" => attempted = AllConfigurations

\* the configurations a row was written for
RowKeys == {<<results[i][1], results[i][2]>> : i \in 2..Len(results)}

\* C19: a row is appended to the results CSV only after pop.solve and
\* check_feasibility have both returned for the configuration being run; a
\* configuration whose solve or feasibility check raised has no row, and no
\* configuration has more than one row.
C19_RowAfterSolveAndCheck ==
    /\ [](driver # "none" =>
            /\ Cardinality(RowKeys) = Max2(Len(results) - 1, 0)
            /\ RowKeys \subseteq attempted
            /\ (Current \in RowKeys) => (solved /\ feasible)
            /\ (~solved \/ ~feasible) => Current \notin RowKeys)
    /\ [][results' # results =>
            /\ results' = Append(results, IF pc = "open_results" THEN <<"HEADERS">>
                                          ELSE <<prob_i, cfg_i, configs[cfg_i]>>)
            /\ pc # "open_results" => (solved /\ feasible /\ pc = "write_row")]_vars

\* C19 witness: the check of the current configuration raised after its solve
\* had returned, it has no row, and an earlier configuration has one
C19_Witness ==
    /\ pc = "except"
    /\ solved /\ ~feasible
    /\ Current \notin RowKeys
    /\ RowKeys # {}

====
